---- MODULE Spec2Model ----
(***************************************************************************)
(* Model of the Kuro monitoring API server (src/kuro_api_server.py).       *)
(*                                                                         *)
(* Units.  Money in the stores (cost_usd) is counted in mills, 1/1000 USD; *)
(* money returned by the API has been through round(x, 2) and is counted   *)
(* in cents.  Averages returned through round(x, 2) are in hundredths.     *)
(*                                                                         *)
(* Time.  A datetime is a record [day, hour, minute, second, microsecond]; *)
(* day counts the days of a two-month calendar window that starts at day 0.*)
(* A timestamp column holds text; text is modelled as the tuple of its     *)
(* fields in the order they are written, compared lexicographically as     *)
(* SQLite compares TEXT.  The stores are written by an external collector  *)
(* in Python's isoformat (local time, "T" separator), the format the       *)
(* "timestamp >= ?" queries of the server bind.                            *)
(*                                                                         *)
(* Exceptions.  Every method returns [raised, value]: raised is TRUE when  *)
(* the call ends in an exception that leaves the method.                   *)
(*                                                                         *)
(* A dict is modelled as a function; its insertion order is not modelled.  *)
(***************************************************************************)
EXTENDS Integers, Sequences, FiniteSets, Bags, TLC

VARIABLES
    now,              \* the wall clock, datetime.now()
    exists,           \* which of the three database files exist
    model_calls,      \* cost_tracker.db: the bag of rows of model_calls
    metrics,          \* system_metrics.db: the bag of rows of metrics
    gateway_metrics,  \* system_metrics.db: the bag of rows of gateway_metrics
    anomaly_events,   \* log_patterns.db: the bag of rows of anomaly_events
    sys_path,         \* sys.path, the entries the server has inserted
    response,         \* the request being answered and its response
    log_read,         \* a get_log_analysis in progress, query by query
    kuro,             \* the KuroAPIServer object: running, server, thread
    call,             \* the start() or stop() call being made on it
    httpd,            \* the HTTPServer of self.server and its serving thread
    net               \* the port and the connections of the clients

vars == <<now, exists, model_calls, metrics, gateway_metrics, anomaly_events,
          sys_path, response, log_read, kuro, call, httpd, net>>

\* The variables of the server object and of the sockets
serverVars == <<kuro, call, httpd, net>>

----------------------------------------------------------------------------
(* Bounds of the model *)

\* The calendar window is days 0..MaxDay.
MaxDay == 8
\* At most MaxEvents rows in a store.
MaxEvents == 2
\* Weekday of day 0, Python's weekday(): Monday is 0.
FirstWeekday == 6
\* Day of the month and month of day 0, and the length of that month.
FirstDayOfMonth == 25
FirstMonth == 10
DaysInMonth == 31
\* Local time is UTC + UtcOffsetHours.
UtcOffsetHours == 8
\* Requests that insert into sys.path are served while it is shorter than this.
MaxSysPath == 3
\* The clients that connect to the server.
MaxClients == 2
\* start() creates at most MaxStarts HTTPServer objects.
MaxStarts == 2

----------------------------------------------------------------------------
(* Calendar and datetime *)

Midnight == [hour |-> 0, minute |-> 0, second |-> 0, microsecond |-> 0]
Midday == [hour |-> 12, minute |-> 30, second |-> 30, microsecond |-> 500000]
TimesOfDay == {Midnight, Midday}

DateTime(d, t) ==
    [day |-> d, hour |-> t.hour, minute |-> t.minute, second |-> t.second,
     microsecond |-> t.microsecond]

Days == 0..MaxDay
\* The clock runs over the last days of the window, so that the trailing
\* seven days of every now lie inside it.
NowDays == (MaxDay - 2)..MaxDay

weekday(dt) == (FirstWeekday + dt.day) % 7

day_of_month(dt) ==
    IF FirstDayOfMonth + dt.day <= DaysInMonth
    THEN FirstDayOfMonth + dt.day
    ELSE FirstDayOfMonth + dt.day - DaysInMonth

month(dt) ==
    IF FirstDayOfMonth + dt.day <= DaysInMonth THEN FirstMonth ELSE FirstMonth + 1

\* dt - timedelta(days=n)
minus_days(dt, n) == [dt EXCEPT !.day = dt.day - n]

\* dt - timedelta(hours=n)
minus_hours(dt, n) ==
    LET total == dt.day * 24 + dt.hour - n
    IN  [dt EXCEPT !.day = total \div 24, !.hour = total % 24]

\* dt.replace(hour=0, minute=0, second=0, microsecond=0)
replace_hmsu(dt) ==
    [dt EXCEPT !.hour = 0, !.minute = 0, !.second = 0, !.microsecond = 0]

\* dt.replace(hour=0, minute=0, second=0): the microsecond is kept
replace_hms(dt) == [dt EXCEPT !.hour = 0, !.minute = 0, !.second = 0]

\* dt.replace(day=1, hour=0, minute=0, second=0, microsecond=0)
replace_day1_hmsu(dt) ==
    [replace_hmsu(dt) EXCEPT !.day = dt.day - (day_of_month(dt) - 1)]

\* Character codes of the two date/time separators.
SepT == 84
SepSpace == 32

\* datetime.isoformat(): "YYYY-MM-DDTHH:MM:SS[.ffffff]"
isoformat(dt) == <<dt.day, SepT, dt.hour, dt.minute, dt.second, dt.microsecond>>

\* SQLite datetime('now', '-N hours'): "YYYY-MM-DD HH:MM:SS", in UTC, no fraction
sqlite_datetime(dt, hours) ==
    LET u == minus_hours(dt, UtcOffsetHours + hours)
    IN  <<u.day, SepSpace, u.hour, u.minute, u.second, 0>>

\* strftime("%m-%d")
strftime_md(dt) == <<month(dt), day_of_month(dt)>>

\* a >= b on TEXT
TextGeq(a, b) ==
    \/ a = b
    \/ \E i \in 1..Len(a) :
          /\ \A j \in 1..(i - 1) : a[j] = b[j]
          /\ a[i] > b[i]

TextLess(a, b) == ~TextGeq(a, b)

----------------------------------------------------------------------------
(* Numbers *)

Max(a, b) == IF a >= b THEN a ELSE b

\* round(num / den) to the nearest integer, ties to even, for num >= 0, den > 0
RoundDiv(num, den) ==
    LET q == num \div den
        r == num % den
    IN  IF 2 * r < den THEN q
        ELSE IF 2 * r > den THEN q + 1
        ELSE IF q % 2 = 0 THEN q ELSE q + 1

\* round(x, 2) of an amount of mills, in cents
round2(mills) == RoundDiv(mills, 10)

\* An SQL aggregate: NULL over no rows
Null == [null |-> TRUE, val |-> 0]
Val(v) == [null |-> FALSE, val |-> v]
\* Python truthiness of a fetched number: None and 0 are falsy
Truthy(x) == ~x.null /\ x.val # 0

RECURSIVE SumOver(_, _, _)
\* The sum of field f over the rows S of bag B, with multiplicity
SumOver(B, S, f) ==
    IF S = {} THEN 0
    ELSE LET r == CHOOSE x \in S : TRUE
         IN  r[f] * B[r] + SumOver(B, S \ {r}, f)

\* The rows of bag B that satisfy P, as a bag
Where(B, P(_)) == [r \in {x \in DOMAIN B : P(x)} |-> B[r]]

Count(B) == BagCardinality(B)
SqlSum(B, f) == IF DOMAIN B = {} THEN Null ELSE Val(SumOver(B, DOMAIN B, f))

----------------------------------------------------------------------------
(* The cost store: table model_calls of cost_tracker.db *)

Slash == <<"/">>
Providers == {<<"a">>, <<"a", "/", "b">>}
Models == {<<"c">>, <<"b", "/", "c">>}
\* cost_usd in mills: 0.204 USD and 1 USD
Costs == {204, 1000}

\* The instants the collector stamps rows with: either instant of the days
\* the clock runs over, midday of the days before them.
EventTimes ==
    {DateTime(d, t) : d \in NowDays, t \in TimesOfDay}
    \cup {DateTime(d, Midday) : d \in Days \ NowDays}

\* The rows the collector may write.  Timestamps and costs vary freely for
\* the first provider and model; the other providers and models are written
\* at midday of the first day of the clock, at the largest cost.
CostEvents ==
    {e \in [timestamp : EventTimes, model : Models, provider : Providers,
            cost_usd : Costs, input_tokens : {100}, output_tokens : {50},
            latency_ms : {125}] :
        \/ e.provider = <<"a">> /\ e.model = <<"c">>
        \/ /\ e.timestamp = DateTime(MaxDay - 2, Midday)
           /\ e.cost_usd = 1000}

\* WHERE timestamp >= ?
Since(B, text) == Where(B, LAMBDA r : TextGeq(isoformat(r.timestamp), text))

\* WHERE timestamp >= ? AND timestamp < ?
Between(B, lo, hi) ==
    Where(B, LAMBDA r : /\ TextGeq(isoformat(r.timestamp), lo)
                        /\ TextLess(isoformat(r.timestamp), hi))

TrendDays == 7
\* The store queries of get_cost_data, in program order: daily, weekly,
\* monthly, by_model, the TrendDays queries of the trend, the 30-day stats.
QDaily == 1
QWeekly == 2
QMonthly == 3
QByModel == 4
QTrendLast == QByModel + TrendDays
QStats == QTrendLast + 1
CostQueries == 1..QStats

daily_start(t) == replace_hmsu(t)

weekly_start_signslip(t) == replace_hmsu(minus_days(t, 0 - weekday(t)))
weekly_start(t) == replace_hmsu(minus_days(t, weekday(t)))

monthly_start(t) == replace_day1_hmsu(t)

\* round(row[0], 2) if row and row[0] else 0
rounded_or_zero(x) == IF Truthy(x) THEN round2(x.val) ELSE 0

\* f"{row[1]}/{row[0]}"
model_key(provider, model) == provider \o Slash \o model

\* The rows of GROUP BY model, provider over bag B: (model, provider, SUM)
by_model_rows(B) ==
    {[model |-> g[1], provider |-> g[2],
      sum |-> SqlSum(Where(B, LAMBDA r : r.model = g[1] /\ r.provider = g[2]),
                     "cost_usd")] :
        g \in {<<r.model, r.provider>> : r \in DOMAIN B}}

\* The dict the loop over the rows, ORDER BY SUM(cost_usd) DESC, leaves:
\* a later row overwrites an earlier one with the same key, so each key
\* holds the value of its last row, the one with the smallest sum.
by_model_dict(rows) ==
    [k \in {model_key(g.provider, g.model) : g \in rows} |->
        LET same == {g \in rows : model_key(g.provider, g.model) = k}
            last == CHOOSE g \in same : \A h \in same : g.sum.val <= h.sum.val
        IN  rounded_or_zero(last.sum)]

\* The 7-day trend: entry i + 1 is the loop's iteration i
trend_7d(B, t) ==
    [n \in 1..TrendDays |->
        LET i == n - 1
            day_start == replace_hms(minus_days(t, i))
            day_end == replace_hms(minus_days(t, i - 1))
        IN  [date |-> strftime_md(day_start),
             cost |-> rounded_or_zero(
                 SqlSum(Between(B, isoformat(day_start), isoformat(day_end)),
                        "cost_usd"))]]

default_prediction ==
    [predicted_monthly_cost |-> 0, confidence |-> "low", daily_average |-> 0,
     trend |-> "stable", based_on_days |-> 0]

\* The projection, from data["monthly"] and data["daily"] in cents
prediction_31(monthly, daily, t) ==
    LET days_used == day_of_month(t)
        den == Max(days_used, 1)
    IN  [predicted_monthly_cost |-> RoundDiv(monthly * 31, den),
         confidence |-> IF days_used > 10 THEN "medium" ELSE "low",
         daily_average |-> RoundDiv(monthly, den),
         trend |-> IF monthly > (IF daily # 0 THEN daily ELSE 100) * den
                   THEN "increasing" ELSE "stable",
         based_on_days |-> days_used]
prediction(monthly, daily, t) ==
    LET days_used == day_of_month(t)
        den == Max(days_used, 1)
    IN  [predicted_monthly_cost |-> RoundDiv(monthly * 30, den),
         confidence |-> IF days_used > 10 THEN "medium" ELSE "low",
         daily_average |-> RoundDiv(monthly, den),
         \* daily_avg > (data["daily"] or 1), both sides times den, in cents
         trend |-> IF monthly > (IF daily # 0 THEN daily ELSE 100) * den
                   THEN "increasing" ELSE "stable",
         based_on_days |-> days_used]

default_stats ==
    [period_days |-> 30, total_calls |-> 0, total_input_tokens |-> 0,
     total_output_tokens |-> 0, total_cost_usd |-> 0, avg_latency_ms |-> 0,
     failed_calls |-> 0, success_rate |-> 0]

\* The 30-day stats; "x or 0" maps NULL to 0
stats_30d(B) ==
    LET n == Count(B)
        or0(x) == IF Truthy(x) THEN x.val ELSE 0
    IN  [default_stats EXCEPT
            !.total_calls = n,
            !.total_input_tokens = or0(SqlSum(B, "input_tokens")),
            !.total_output_tokens = or0(SqlSum(B, "output_tokens")),
            !.total_cost_usd = round2(or0(SqlSum(B, "cost_usd"))),
            !.avg_latency_ms =
                IF n = 0 THEN 0 ELSE RoundDiv(100 * SumOver(B, DOMAIN B, "latency_ms"), n)]

default_cost_data(t) ==
    [timestamp |-> isoformat(t), daily |-> 0, weekly |-> 0, monthly |-> 0,
     by_model |-> << >>, trend_7d |-> << >>,
     prediction |-> default_prediction, stats |-> default_stats]

\* get_cost_data at clock t, the store file present or not, holding bag B;
\* failAt = 0: every query succeeds; failAt = k: query k raises (the file is
\* no database, the table is missing, the database is locked).  The except
\* clause ends the block and prints; data keeps what was assigned before.
get_cost_data(t, present, B, failAt) ==
    LET ran(k) == present /\ (failAt = 0 \/ k < failAt)
        daily == IF ran(QDaily)
                 THEN rounded_or_zero(SqlSum(Since(B, isoformat(daily_start(t))), "cost_usd"))
                 ELSE 0
        weekly == IF ran(QWeekly)
                  THEN rounded_or_zero(SqlSum(Since(B, isoformat(weekly_start(t))), "cost_usd"))
                  ELSE 0
        monthly == IF ran(QMonthly)
                   THEN rounded_or_zero(SqlSum(Since(B, isoformat(monthly_start(t))), "cost_usd"))
                   ELSE 0
    IN  [raised |-> FALSE,
         printed |-> IF present /\ failAt # 0 THEN {"cost query failed"} ELSE {},
         value |->
            [timestamp |-> isoformat(t),
             daily |-> daily,
             weekly |-> weekly,
             monthly |-> monthly,
             by_model |-> IF ran(QByModel)
                          THEN by_model_dict(by_model_rows(
                                   Since(B, sqlite_datetime(t, 7 * 24))))
                          ELSE << >>,
             trend_7d |-> IF ran(QTrendLast) THEN trend_7d(B, t) ELSE << >>,
             stats |-> IF ran(QStats)
                       THEN stats_30d(Since(B, sqlite_datetime(t, 30 * 24)))
                       ELSE default_stats,
             prediction |-> IF ran(QStats) /\ monthly > 0
                            THEN prediction(monthly, daily, t)
                            ELSE default_prediction]]

----------------------------------------------------------------------------
(* SystemMonitor.check_costs of src/scripts/system_monitor.py, over the same
   table model_calls *)

\* dt.replace(hour=0): minute, second and microsecond are kept
replace_h(dt) == [dt EXCEPT !.hour = 0]

\* dt.replace(day=1, hour=0)
replace_day1_h(dt) == [dt EXCEPT !.day = dt.day - (day_of_month(dt) - 1), !.hour = 0]

\* round(row[0] or 0, 2)
round2_or0(x) == IF Truthy(x) THEN round2(x.val) ELSE 0

\* The three queries of check_costs, in program order
QCheckDaily == 1
QCheckWeekly == 2
QCheckMonthly == 3

\* check_costs at clock t; a failing query leaves the figures assigned
\* before it ("except: pass")
check_costs(t, present, B, failAt) ==
    LET ran(k) == present /\ (failAt = 0 \/ k < failAt)
        check_daily_start == replace_hms(t)
        check_weekly_start == replace_h(minus_days(t, weekday(t)))
        check_monthly_start == replace_day1_h(t)
        figure(k, start) ==
            IF ran(k) THEN round2_or0(SqlSum(Since(B, isoformat(start)), "cost_usd"))
            ELSE 0
    IN  [raised |-> FALSE,
         value |-> [daily |-> figure(QCheckDaily, check_daily_start),
                    weekly |-> figure(QCheckWeekly, check_weekly_start),
                    monthly |-> figure(QCheckMonthly, check_monthly_start),
                    by_model |-> << >>]]

----------------------------------------------------------------------------
(* The gateway probe *)

\* What urllib.request.urlopen(req, timeout=5) does: it returns a response
\* (a status below 400), raises HTTPError (the gateway answered with an error
\* status), or raises another exception (connection refused, timeout).
ProbeOutcomes ==
    [kind : {"response"}, status : {200, 204}, elapsed_ms : {3}]
    \cup [kind : {"HTTPError"}, status : {500}, elapsed_ms : {3}]
    \cup [kind : {"refused", "timeout"}, status : {0}, elapsed_ms : {3}]

gateway_unreachable(t, o) ==
    [raised |-> FALSE,
     value |-> [running |-> FALSE, http_status |-> 0, response_time_ms |-> 0,
                port_open |-> FALSE, healthy |-> FALSE, error |-> o.kind,
                timestamp |-> isoformat(t)]]

\* get_gateway_status without its "except urllib.error.HTTPError" clause
get_gateway_status_no_http_clause(t, o) ==
    IF o.kind = "response"
    THEN [raised |-> FALSE,
          value |-> [running |-> TRUE, http_status |-> o.status,
                     response_time_ms |-> o.elapsed_ms, port_open |-> TRUE,
                     healthy |-> (o.status = 200), timestamp |-> isoformat(t)]]
    ELSE gateway_unreachable(t, o)
get_gateway_status(t, o) ==
    IF o.kind = "response"
    THEN [raised |-> FALSE,
          value |-> [running |-> TRUE, http_status |-> o.status,
                     response_time_ms |-> o.elapsed_ms, port_open |-> TRUE,
                     healthy |-> (o.status = 200), timestamp |-> isoformat(t)]]
    ELSE IF o.kind = "HTTPError"
    THEN [raised |-> FALSE,
          value |-> [running |-> TRUE, http_status |-> o.status,
                     response_time_ms |-> 0, port_open |-> TRUE,
                     healthy |-> FALSE, error |-> o.kind,
                     timestamp |-> isoformat(t)]]
    ELSE gateway_unreachable(t, o)

----------------------------------------------------------------------------
(* The metrics store: tables metrics and gateway_metrics of system_metrics.db *)

\* The rows of metrics.  memory_percent is held as the SQL value the column
\* has, a number or NULL; the server passes it on as fetched.
MetricSnapshots ==
    [timestamp : {DateTime(d, t) : d \in NowDays, t \in TimesOfDay},
     cpu_percent : {0, 40}, memory_percent : {Val(50), Null}, disk_percent : {60}]

GatewayMetrics ==
    [timestamp : {DateTime(d, t) : d \in NowDays, t \in TimesOfDay},
     response_time_ms : {0, 25}]

QLatest == 1
QCpuAvg == 2
QGateway == 3
PerfQueries == 1..QGateway

\* The rows "ORDER BY timestamp DESC LIMIT 1" may return: a row with the
\* greatest timestamp (SQLite picks among equal ones)
LatestRows(M) ==
    {r \in DOMAIN M :
        \A q \in DOMAIN M : TextGeq(isoformat(r.timestamp), isoformat(q.timestamp))}

\* AVG(f) over bag B as the fraction val / den; NULL over no rows
SqlAvg(B, f) ==
    IF DOMAIN B = {} THEN [null |-> TRUE, val |-> 0, den |-> 1]
    ELSE [null |-> FALSE, val |-> SumOver(B, DOMAIN B, f), den |-> Count(B)]

\* round(avg, 2), in hundredths
round2_avg(x) == RoundDiv(100 * x.val, x.den)

default_performance_data(t) ==
    [timestamp |-> isoformat(t),
     system |-> [cpu_percent |-> 0, memory_percent |-> Val(0), disk_percent |-> 0,
                 cpu_1h_avg |-> 0],
     gateway |-> [response_1h_avg |-> 0, error_1h_avg |-> 0, total_requests |-> 0]]

\* get_performance_data; latest is what the first query fetched: << >> on an
\* empty table, else the one row
get_performance_data(t, present, M, G, latest, failAt) ==
    LET ran(k) == present /\ (failAt = 0 \/ k < failAt)
        d == default_performance_data(t)
        cpu == SqlAvg(Since(M, isoformat(minus_hours(t, 1))), "cpu_percent")
        window == Since(G, sqlite_datetime(t, 1))
        avg == SqlAvg(window, "response_time_ms")
    IN  [raised |-> FALSE,
         printed |-> IF present /\ failAt # 0 THEN {"performance query failed"} ELSE {},
         value |->
            [timestamp |-> isoformat(t),
             system |->
                [cpu_percent |-> IF ran(QLatest) /\ Len(latest) > 0
                                 THEN latest[1].cpu_percent ELSE 0,
                 memory_percent |-> IF ran(QLatest) /\ Len(latest) > 0
                                    THEN latest[1].memory_percent ELSE Val(0),
                 disk_percent |-> IF ran(QLatest) /\ Len(latest) > 0
                                  THEN latest[1].disk_percent ELSE 0,
                 cpu_1h_avg |-> IF ran(QCpuAvg) /\ Truthy(cpu) THEN round2_avg(cpu) ELSE 0],
             gateway |->
                [response_1h_avg |-> IF ran(QGateway) /\ Truthy(avg)
                                     THEN round2_avg(avg) ELSE 0,
                 error_1h_avg |-> 0,
                 total_requests |-> IF ran(QGateway) /\ Truthy(avg)
                                    THEN Count(window) ELSE 0]]]

----------------------------------------------------------------------------
(* The anomaly store: table anomaly_events of log_patterns.db *)

Severities == {"critical", "warning", "info"}
AnomalyTypes == {"timeout", "oom"}

AnomalyEvents ==
    [timestamp : {DateTime(d, t) : d \in {0} \cup NowDays, t \in {Midday}},
     anomaly_type : AnomalyTypes, severity : Severities,
     description : {"d"}, suggested_action : {"s"}]

QTotal == 1
QBySeverity == 2
QByType == 3
QRecent == 4
LogQueries == 1..QRecent
RecentLimit == 10

\* SELECT f, COUNT(*) ... GROUP BY f, as the dict the loop builds on top of base
group_counts(B, f, base) ==
    [k \in DOMAIN base \cup {r[f] : r \in DOMAIN B} |->
        IF \E r \in DOMAIN B : r[f] = k
        THEN Count(Where(B, LAMBDA r : r[f] = k))
        ELSE base[k]]

\* The orders "ORDER BY timestamp DESC" may return the rows of bag B in
RowOrders(B) ==
    {s \in [1..Count(B) -> DOMAIN B] :
        /\ \A r \in DOMAIN B : Cardinality({i \in 1..Count(B) : s[i] = r}) = B[r]
        /\ \A i \in 1..(Count(B) - 1) :
              TextGeq(isoformat(s[i].timestamp), isoformat(s[i + 1].timestamp))}

\* The rows of the last query: newest first, at most RecentLimit
recent_window(A, t) == Since(A, isoformat(minus_days(t, 7)))

default_log_analysis(t) ==
    [timestamp |-> isoformat(t), total_anomalies |-> 0,
     by_severity |-> [k \in {"critical", "error", "warning"} |-> 0],
     by_type |-> << >>, recent_anomalies |-> << >>]

\* get_log_analysis; recent is the order the last query returned its rows in
get_log_analysis(t, present, A, recent, failAt) ==
    LET ran(k) == present /\ (failAt = 0 \/ k < failAt)
        d == default_log_analysis(t)
        n == IF Len(recent) < RecentLimit THEN Len(recent) ELSE RecentLimit
    IN  [raised |-> FALSE,
         printed |-> IF present /\ failAt # 0 THEN {"log query failed"} ELSE {},
         value |->
            [timestamp |-> isoformat(t),
             total_anomalies |-> IF ran(QTotal) THEN Count(A) ELSE 0,
             by_severity |-> IF ran(QBySeverity)
                             THEN group_counts(A, "severity", d.by_severity)
                             ELSE d.by_severity,
             by_type |-> IF ran(QByType)
                         THEN group_counts(A, "anomaly_type", << >>)
                         ELSE << >>,
             recent_anomalies |->
                IF ran(QRecent)
                THEN [i \in 1..n |->
                        [timestamp |-> isoformat(recent[i].timestamp),
                         anomaly_type |-> recent[i].anomaly_type,
                         severity |-> recent[i].severity,
                         description |-> recent[i].description,
                         suggested_action |-> recent[i].suggested_action]]
                ELSE << >>]]

----------------------------------------------------------------------------
(* The channel probe and the facade *)

\* What importing scripts.channel_monitor and calling check_all_channels does:
\* the module is missing (ImportError), the probe throws, or it returns the
\* health of the channels
ChannelOutcomes ==
    [kind : {"missing", "throws"}, health : {<< >>}]
    \cup [kind : {"ok"},
          health : {[telegram |-> [name |-> "Telegram", status |-> "active"]]}]

get_channel_status_no_try(t, o) ==
    IF o.kind = "ok"
    THEN [raised |-> FALSE, value |-> o.health]
    ELSE [raised |-> TRUE, value |-> << >>]
\* get_channel_status with the length of sys.path in its error text
get_channel_status_names_path(t, o) ==
    IF o.kind = "ok"
    THEN [raised |-> FALSE, value |-> o.health]
    ELSE [raised |-> FALSE,
          value |-> [error |-> <<o.kind, Len(sys_path)>>, timestamp |-> isoformat(t)]]
get_channel_status(t, o) ==
    IF o.kind = "ok"
    THEN [raised |-> FALSE, value |-> o.health]
    ELSE [raised |-> FALSE,
          value |-> [error |-> o.kind, timestamp |-> isoformat(t)]]

\* get_all_data from the results of the five calls it makes: an exception
\* leaving any of them leaves get_all_data
get_all_data(t, gateway, costs, performance, logs, channels) ==
    [raised |-> \/ gateway.raised \/ costs.raised \/ performance.raised
                \/ logs.raised \/ channels.raised,
     printed |-> costs.printed \cup performance.printed \cup logs.printed,
     value |-> [gateway |-> gateway.value, costs |-> costs.value,
                performance |-> performance.value, logs |-> logs.value,
                channels |-> channels.value, timestamp |-> isoformat(t)]]

----------------------------------------------------------------------------
(* The HTTP handler *)

Paths ==
    {"/api/status", "/api/health", "/api/full-status", "/api/monitoring/all",
     "/api/monitoring/gateway", "/api/monitoring/costs",
     "/api/monitoring/performance", "/api/monitoring/logs",
     "/api/monitoring/channels", "/favicon.ico"}

AllPaths == {"/api/full-status", "/api/monitoring/all"}

\* What the environment decides while a request is served: the outcome of the
\* gateway probe and of the channel probe, the query at which each store
\* fails (0: none), and the rows SQLite returns where it has a choice.
NoProbe == [kind |-> "none", status |-> 0, elapsed_ms |-> 0]
NoChannel == [kind |-> "none", health |-> << >>]
NoEnv ==
    [probe |-> NoProbe, cost_fail |-> 0, perf_fail |-> 0, log_fail |-> 0,
     channel |-> NoChannel, latest |-> << >>, recent |-> << >>]

Failures(db, queries) == IF exists[db] THEN {0} \cup queries ELSE {0}
Latest == IF DOMAIN metrics = {} THEN {<< >>} ELSE {<<r>> : r \in LatestRows(metrics)}
Recent == RowOrders(recent_window(anomaly_events, now))

Uses(path, what) ==
    \/ path \in AllPaths
    \/ path = "/api/monitoring/" \o what

Envs(path) ==
    {e \in [probe : IF Uses(path, "gateway") THEN ProbeOutcomes ELSE {NoProbe},
            cost_fail : IF Uses(path, "costs")
                        THEN Failures("cost", CostQueries) ELSE {0},
            perf_fail : IF Uses(path, "performance")
                        THEN Failures("metrics", PerfQueries) ELSE {0},
            log_fail : IF Uses(path, "logs")
                       THEN Failures("log", LogQueries) ELSE {0},
            channel : IF Uses(path, "channels") THEN ChannelOutcomes ELSE {NoChannel},
            latest : IF Uses(path, "performance") THEN Latest ELSE {<< >>},
            recent : IF Uses(path, "logs") THEN Recent ELSE {<< >>}] : TRUE}

ApiGateway(e) == get_gateway_status(now, e.probe)
ApiCosts(e) == get_cost_data(now, exists["cost"], model_calls, e.cost_fail)
ApiPerformance(e) ==
    get_performance_data(now, exists["metrics"], metrics, gateway_metrics,
                         e.latest, e.perf_fail)
ApiLogs(e) == get_log_analysis(now, exists["log"], anomaly_events, e.recent, e.log_fail)
ApiChannels(e) == get_channel_status(now, e.channel)
ApiAll(e) ==
    get_all_data(now, ApiGateway(e), ApiCosts(e), ApiPerformance(e), ApiLogs(e),
                 ApiChannels(e))

\* _send_json(data, status); an exception leaving the API method leaves
\* do_GET before anything is sent
send_json(r, status) ==
    IF r.raised
    THEN [status |-> 0, raised |-> TRUE, body |-> << >>]
    ELSE [status |-> status, raised |-> FALSE, body |-> r.value]

\* data['resources'] = {...}
with_resources(r) ==
    IF r.raised THEN r
    ELSE [r EXCEPT !.value =
            [k \in DOMAIN r.value \cup {"resources"} |->
                IF k = "resources"
                THEN [disk_usage_percent |-> r.value.performance.system.disk_percent,
                      logs_human |-> "2 MB", workspace_human |-> "31 MB"]
                ELSE r.value[k]]]

do_GET(path, e) ==
    IF path = "/api/status" \/ path = "/api/health"
    THEN send_json([raised |-> FALSE,
                    value |-> [status |-> "ok", timestamp |-> isoformat(now)]], 200)
    ELSE IF path = "/api/full-status" \/ path = "/api/monitoring/all"
    THEN send_json(with_resources(ApiAll(e)), 200)
    ELSE IF path = "/api/monitoring/gateway" THEN send_json(ApiGateway(e), 200)
    ELSE IF path = "/api/monitoring/costs" THEN send_json(ApiCosts(e), 200)
    ELSE IF path = "/api/monitoring/performance" THEN send_json(ApiPerformance(e), 200)
    ELSE IF path = "/api/monitoring/logs" THEN send_json(ApiLogs(e), 200)
    ELSE IF path = "/api/monitoring/channels" THEN send_json(ApiChannels(e), 200)
    ELSE send_json([raised |-> FALSE, value |-> [error |-> "Not found"]], 404)

----------------------------------------------------------------------------
(* The state machine *)

Stores == {"cost", "metrics", "log"}
NoResponse == [path |-> "", env |-> NoEnv, status |-> 0, raised |-> FALSE, body |-> << >>]
\* No request is being served.
Idle == response.path = ""

FirstNow == DateTime(MaxDay - 2, Midnight)

\* No get_log_analysis is in progress.
NoLogRead == [pc |-> 0, data |-> << >>]

Clients == 1..MaxClients
\* KuroAPIServer.__init__; server and thread hold the identity of the object
\* they refer to, 0 for None
NewKuroAPIServer == [running |-> FALSE, server |-> 0, thread |-> 0]
NoCall == [op |-> "none", state |-> "returned", raised |-> FALSE]
\* No HTTPServer has been created yet.
NoServer ==
    [id |-> 0, listening |-> FALSE, loop |-> "none", shutdown_request |-> FALSE,
     handling |-> 0]
\* The port is free and no client has connected.
QuietNet ==
    [port_taken |-> FALSE, backlog |-> << >>, conns |-> [c \in Clients |-> "none"]]

Init ==
    /\ now = FirstNow
    /\ exists = [db \in Stores |-> FALSE]
    /\ model_calls = EmptyBag
    /\ metrics = EmptyBag
    /\ gateway_metrics = EmptyBag
    /\ anomaly_events = EmptyBag
    /\ sys_path = <<"dirname(__file__)">>
    /\ response = NoResponse
    /\ log_read = NoLogRead
    /\ kuro = NewKuroAPIServer
    /\ call = NoCall
    /\ httpd = NoServer
    /\ net = QuietNet

\* The clock moves to the next instant of the model.
Tick ==
    /\ Idle
    /\ \/ now.hour = Midnight.hour /\ now' = DateTime(now.day, Midday)
       \/ now.hour = Midday.hour /\ now.day < MaxDay
                                 /\ now' = DateTime(now.day + 1, Midnight)
    /\ UNCHANGED <<exists, model_calls, metrics, gateway_metrics, anomaly_events,
                   sys_path, response,
                   log_read, serverVars>>

\* The collector creates a database file, its tables empty.
CreateStore(db) ==
    /\ Idle
    /\ ~exists[db]
    /\ exists' = [exists EXCEPT ![db] = TRUE]
    /\ UNCHANGED <<now, model_calls, metrics, gateway_metrics, anomaly_events,
                   sys_path, response,
                   log_read, serverVars>>

\* The collector appends a row to a table.
IngestModelCall ==
    /\ Idle
    /\ exists["cost"]
    /\ Count(model_calls) < MaxEvents
    /\ \E e \in CostEvents : model_calls' = model_calls (+) SetToBag({e})
    /\ UNCHANGED <<now, exists, metrics, gateway_metrics, anomaly_events, sys_path, response,
                   log_read, serverVars>>

IngestMetric ==
    /\ Idle
    /\ exists["metrics"]
    /\ Count(metrics) + Count(gateway_metrics) < MaxEvents
    /\ \E e \in MetricSnapshots : metrics' = metrics (+) SetToBag({e})
    /\ UNCHANGED <<now, exists, model_calls, gateway_metrics, anomaly_events, sys_path, response,
                   log_read, serverVars>>

IngestGatewayMetric ==
    /\ Idle
    /\ exists["metrics"]
    /\ Count(metrics) + Count(gateway_metrics) < MaxEvents
    /\ \E e \in GatewayMetrics : gateway_metrics' = gateway_metrics (+) SetToBag({e})
    /\ UNCHANGED <<now, exists, model_calls, metrics, anomaly_events, sys_path, response,
                   log_read, serverVars>>

IngestAnomaly ==
    /\ Idle
    /\ exists["log"]
    /\ Count(anomaly_events) < MaxEvents
    /\ \E e \in AnomalyEvents : anomaly_events' = anomaly_events (+) SetToBag({e})
    /\ UNCHANGED <<now, exists, model_calls, metrics, gateway_metrics, sys_path, response,
                   log_read, serverVars>>

\* One run of the collector while the stores are still missing: it creates
\* the three files and writes one row, stamped now, to every table.
Collect ==
    /\ Idle
    /\ \A db \in Stores : ~exists[db]
    /\ exists' = [db \in Stores |-> TRUE]
    /\ model_calls' = SetToBag({[timestamp |-> now, model |-> <<"c">>,
                                 provider |-> <<"a">>, cost_usd |-> 1000,
                                 input_tokens |-> 100, output_tokens |-> 50,
                                 latency_ms |-> 125]})
    /\ metrics' = SetToBag({[timestamp |-> now, cpu_percent |-> 40,
                             memory_percent |-> Val(50), disk_percent |-> 60]})
    /\ gateway_metrics' = SetToBag({[timestamp |-> now, response_time_ms |-> 25]})
    /\ anomaly_events' = SetToBag({[timestamp |-> now, anomaly_type |-> "timeout",
                                    severity |-> "critical", description |-> "d",
                                    suggested_action |-> "s"]})
    /\ UNCHANGED <<now, sys_path, response,
                   log_read, serverVars>>

\* APIHandler.do_GET: one GET request served from start to end
Get(path) ==
    /\ Idle
    /\ Uses(path, "channels") => Len(sys_path) < MaxSysPath
    /\ \E e \in Envs(path) :
          response' = [path |-> path, env |-> e] @@ do_GET(path, e)
    /\ sys_path' = IF Uses(path, "channels")
                   THEN <<"~/.openclaw/workspace">> \o sys_path
                   ELSE sys_path
    /\ UNCHANGED <<now, exists, model_calls, metrics, gateway_metrics, anomaly_events,
                   log_read, serverVars>>

\* The response has reached the client and the handler has returned.
Deliver ==
    /\ ~Idle
    /\ response' = NoResponse
    /\ UNCHANGED <<now, exists, model_calls, metrics, gateway_metrics, anomaly_events,
                   sys_path,
                   log_read, serverVars>>

GetCosts == Get("/api/monitoring/costs")
GetPerformance == Get("/api/monitoring/performance")
GetLogs == Get("/api/monitoring/logs")
GetAny == \E path \in Paths : Get(path)

\* The server as a whole
Next == Collect \/ GetAny \/ Deliver
Spec == Init /\ [][Next]_vars

\* The cost aggregator over the cost store
NextCost == Tick \/ CreateStore("cost") \/ IngestModelCall \/ GetCosts \/ Deliver
SpecCost == Init /\ [][NextCost]_vars

\* The performance aggregator over the metrics store
NextPerf == Tick \/ CreateStore("metrics") \/ IngestMetric \/ IngestGatewayMetric
            \/ GetPerformance \/ Deliver
SpecPerf == Init /\ [][NextPerf]_vars

\* The anomaly aggregator over the anomaly store
NextLogs == Tick \/ CreateStore("log") \/ IngestAnomaly \/ GetLogs \/ Deliver
SpecLogs == Init /\ [][NextLogs]_vars

----------------------------------------------------------------------------
(* get_log_analysis query by query, the collector writing meanwhile *)

\* The key of data that query k assigns
LogField(k) ==
    IF k = QTotal THEN "total_anomalies"
    ELSE IF k = QBySeverity THEN "by_severity"
    ELSE IF k = QByType THEN "by_type"
    ELSE "recent_anomalies"

\* get_log_analysis is entered: data holds its defaults
LogBegin ==
    /\ Idle
    /\ log_read.pc = 0
    /\ log_read' = [pc |-> QTotal, data |-> default_log_analysis(now)]
    /\ UNCHANGED <<now, exists, model_calls, metrics, gateway_metrics, anomaly_events,
                   sys_path, response, serverVars>>

\* The next conn.execute of get_log_analysis: each statement reads the table
\* as it is when the statement runs
LogQuery ==
    /\ log_read.pc \in LogQueries
    /\ exists["log"]
    /\ \E recent \in Recent :
          LET k == log_read.pc
              read == get_log_analysis(now, TRUE, anomaly_events, recent, 0).value
          IN  log_read' = [pc |-> k + 1,
                           data |-> [log_read.data EXCEPT ![LogField(k)] = read[LogField(k)]]]
    /\ UNCHANGED <<now, exists, model_calls, metrics, gateway_metrics, anomaly_events,
                   sys_path, response, serverVars>>

\* return data, sent by do_GET
LogReturn ==
    /\ Idle
    /\ \/ log_read.pc = QRecent + 1
       \/ log_read.pc = QTotal /\ ~exists["log"]
    /\ response' = [path |-> "/api/monitoring/logs", env |-> NoEnv]
                    @@ send_json([raised |-> FALSE, value |-> log_read.data], 200)
    /\ log_read' = NoLogRead
    /\ UNCHANGED <<now, exists, model_calls, metrics, gateway_metrics, anomaly_events,
                   sys_path, serverVars>>

NextLogsLive ==
    CreateStore("log") \/ IngestAnomaly \/ LogBegin \/ LogQuery \/ LogReturn \/ Deliver
SpecLogsLive == Init /\ [][NextLogsLive]_vars

----------------------------------------------------------------------------
(* KuroAPIServer: start(), stop(), and the thread that runs
   HTTPServer.serve_forever, which accepts and handles one connection at a
   time *)

\* The endpoints the clients of this part ask for
ServedPaths == {"/api/status", "/api/monitoring/gateway"}

\* "if self.running: return"
start_running ==
    /\ call.state = "returned"
    /\ kuro.running
    /\ call' = [op |-> "start", state |-> "returned", raised |-> FALSE]
    /\ UNCHANGED <<now, exists, model_calls, metrics, gateway_metrics, anomaly_events,
                   sys_path, response, log_read, kuro, httpd, net>>

\* HTTPServer(("127.0.0.1", port), APIHandler) raises OSError: the port is
\* taken; nothing has been assigned
start_bind_fails ==
    /\ call.state = "returned"
    /\ ~kuro.running
    /\ net.port_taken
    /\ call' = [op |-> "start", state |-> "returned", raised |-> TRUE]
    /\ UNCHANGED <<now, exists, model_calls, metrics, gateway_metrics, anomaly_events,
                   sys_path, response, log_read, kuro, httpd, net>>

\* The server is created and bound, its thread is started, running is set
start_serves ==
    /\ call.state = "returned"
    /\ ~kuro.running
    /\ ~net.port_taken
    /\ httpd.id < MaxStarts
    /\ httpd' = [id |-> httpd.id + 1, listening |-> TRUE, loop |-> "starting",
                 shutdown_request |-> FALSE, handling |-> 0]
    /\ kuro' = [running |-> TRUE, server |-> httpd.id + 1, thread |-> httpd.id + 1]
    /\ call' = [op |-> "start", state |-> "returned", raised |-> FALSE]
    /\ UNCHANGED <<now, exists, model_calls, metrics, gateway_metrics, anomaly_events,
                   sys_path, response, log_read, net>>

start == start_running \/ start_bind_fails \/ start_serves

\* stop() with self.server None
stop_unstarted ==
    /\ call.state = "returned"
    /\ kuro.server = 0
    /\ kuro' = [kuro EXCEPT !.running = FALSE]
    /\ call' = [op |-> "stop", state |-> "returned", raised |-> FALSE]
    /\ UNCHANGED <<now, exists, model_calls, metrics, gateway_metrics, anomaly_events,
                   sys_path, response, log_read, httpd, net>>

\* self.server.shutdown(): the request is set, then the caller waits until
\* serve_forever has returned
stop_shutdown ==
    /\ call.state = "returned"
    /\ kuro.server # 0
    /\ httpd' = [httpd EXCEPT !.shutdown_request = TRUE]
    /\ call' = [op |-> "stop", state |-> "waiting", raised |-> FALSE]
    /\ UNCHANGED <<now, exists, model_calls, metrics, gateway_metrics, anomaly_events,
                   sys_path, response, log_read, kuro, net>>

\* The connections still waiting in the backlog are reset when the listening
\* socket is closed
closed_backlog ==
    [net EXCEPT !.backlog = << >>,
                !.conns = [c \in Clients |->
                              IF \E i \in 1..Len(net.backlog) : net.backlog[i] = c
                              THEN "reset" ELSE net.conns[c]]]

\* stop() that does not call server_close()
stop_leaves_socket ==
    /\ call = [op |-> "stop", state |-> "waiting", raised |-> FALSE]
    /\ httpd.loop = "exited"
    /\ kuro' = [kuro EXCEPT !.running = FALSE]
    /\ call' = [call EXCEPT !.state = "returned"]
    /\ UNCHANGED <<now, exists, model_calls, metrics, gateway_metrics, anomaly_events,
                   sys_path, response, log_read, httpd, net>>

\* shutdown() returns once serve_forever has returned; server_close();
\* self.running = False
stop_close ==
    /\ call = [op |-> "stop", state |-> "waiting", raised |-> FALSE]
    /\ httpd.loop = "exited"
    /\ httpd' = [httpd EXCEPT !.listening = FALSE]
    /\ net' = closed_backlog
    /\ kuro' = [kuro EXCEPT !.running = FALSE]
    /\ call' = [call EXCEPT !.state = "returned"]
    /\ UNCHANGED <<now, exists, model_calls, metrics, gateway_metrics, anomaly_events,
                   sys_path, response, log_read>>

stop_without_close == stop_unstarted \/ stop_shutdown \/ stop_leaves_socket
stop == stop_unstarted \/ stop_shutdown \/ stop_close

\* The thread enters serve_forever
serve_forever ==
    /\ httpd.loop = "starting"
    /\ httpd' = [httpd EXCEPT !.loop = "serving"]
    /\ UNCHANGED <<now, exists, model_calls, metrics, gateway_metrics, anomaly_events,
                   sys_path, response, log_read, kuro, call, net>>

\* serve_forever sees the shutdown request between two requests and returns
loop_exit ==
    /\ httpd.loop = "serving"
    /\ httpd.shutdown_request
    /\ httpd' = [httpd EXCEPT !.loop = "exited", !.shutdown_request = FALSE]
    /\ UNCHANGED <<now, exists, model_calls, metrics, gateway_metrics, anomaly_events,
                   sys_path, response, log_read, kuro, call, net>>

\* serve_forever takes the oldest connection of the backlog and handles it in
\* its own thread: the handler reads the request line from the connection
accept ==
    /\ httpd.loop = "serving"
    /\ ~httpd.shutdown_request
    /\ net.backlog # << >>
    /\ httpd' = [httpd EXCEPT !.loop = "handling", !.handling = Head(net.backlog)]
    /\ net' = [net EXCEPT !.backlog = Tail(net.backlog)]
    /\ UNCHANGED <<now, exists, model_calls, metrics, gateway_metrics, anomaly_events,
                   sys_path, response, log_read, kuro, call>>

\* The request has arrived: do_GET answers it and the loop goes on
respond ==
    /\ httpd.loop = "handling"
    /\ net.conns[httpd.handling] = "sent"
    /\ Idle
    /\ \E path \in ServedPaths : \E e \in Envs(path) :
          response' = [path |-> path, env |-> e] @@ do_GET(path, e)
    /\ net' = [net EXCEPT !.conns[httpd.handling] = "done"]
    /\ httpd' = [httpd EXCEPT !.loop = "serving", !.handling = 0]
    /\ UNCHANGED <<now, exists, model_calls, metrics, gateway_metrics, anomaly_events,
                   sys_path, log_read, kuro, call>>

\* A client connects: the connection waits in the backlog of the socket
connect(c) ==
    /\ httpd.listening
    /\ net.conns[c] = "none"
    /\ net' = [net EXCEPT !.conns[c] = "connected", !.backlog = Append(net.backlog, c)]
    /\ UNCHANGED <<now, exists, model_calls, metrics, gateway_metrics, anomaly_events,
                   sys_path, response, log_read, kuro, call, httpd>>

\* A connected client sends its request; a client that never does has stalled
client_sends(c) ==
    /\ net.conns[c] = "connected"
    /\ net' = [net EXCEPT !.conns[c] = "sent"]
    /\ UNCHANGED <<now, exists, model_calls, metrics, gateway_metrics, anomaly_events,
                   sys_path, response, log_read, kuro, call, httpd>>

\* Another process binds the port while the server does not hold it
other_binds ==
    /\ ~httpd.listening
    /\ ~net.port_taken
    /\ net' = [net EXCEPT !.port_taken = TRUE]
    /\ UNCHANGED <<now, exists, model_calls, metrics, gateway_metrics, anomaly_events,
                   sys_path, response, log_read, kuro, call, httpd>>

other_releases ==
    /\ net.port_taken
    /\ net' = [net EXCEPT !.port_taken = FALSE]
    /\ UNCHANGED <<now, exists, model_calls, metrics, gateway_metrics, anomaly_events,
                   sys_path, response, log_read, kuro, call, httpd>>

Connects == \E c \in Clients : connect(c)
Sends == \E c \in Clients : client_sends(c)

\* The life of one KuroAPIServer
NextLifecycle ==
    start \/ stop \/ serve_forever \/ loop_exit \/ accept \/ respond \/ Deliver
    \/ Connects \/ Sends \/ other_binds \/ other_releases
SpecLifecycle == Init /\ [][NextLifecycle]_vars

\* A started server that is never stopped; its thread keeps running
NextServing ==
    start_serves \/ serve_forever \/ accept \/ respond \/ Deliver \/ Connects \/ Sends
SpecServing ==
    /\ Init /\ [][NextServing]_vars
    /\ WF_vars(serve_forever) /\ WF_vars(accept) /\ WF_vars(respond) /\ WF_vars(Deliver)

----------------------------------------------------------------------------
(* Properties *)

Served(path) == response.path = path
\* A response of get_cost_data over a readable store, no query failing
CostsRead ==
    /\ Served("/api/monitoring/costs")
    /\ exists["cost"]
    /\ response.env.cost_fail = 0

Keys3 == {"critical", "error", "warning"}

\* C1: get_gateway_status never raises, and classifies the probe three ways:
\* a response with status 200 is healthy, running and port_open; a refused
\* connection or a timeout is none of the three, with http_status 0; a
\* response with any other status is running and port_open but not healthy.
C1_GatewayThreeWay ==
    Served("/api/monitoring/gateway") =>
        LET o == response.env.probe
            b == response.body
        IN  /\ ~response.raised
            /\ (o.kind = "response" /\ o.status = 200) =>
                    b.healthy /\ b.running /\ b.port_open
            /\ o.kind \in {"refused", "timeout"} =>
                    ~b.healthy /\ ~b.running /\ ~b.port_open /\ b.http_status = 0
            /\ (o.kind \in {"response", "HTTPError"} /\ o.status # 200) =>
                    ~b.healthy /\ b.running /\ b.port_open /\ b.http_status = o.status

\* The gateway answered the probe with an error status.
C1_Witness ==
    /\ Served("/api/monitoring/gateway")
    /\ response.env.probe.kind = "HTTPError"
    /\ response.body.running
    /\ ~response.body.healthy

\* C2: get_all_data never raises, whatever stores are absent, present or
\* failing, whatever the gateway probe does and whether the channel probe is
\* missing or throws: the six keys are there, every section is what its own
\* method returns for its own inputs, whatever fails in the other sections,
\* and a failing channel probe shows only as {error, timestamp} in channels.
C2_SnapshotNeverRaises ==
    response.path \in AllPaths =>
        LET e == response.env
            b == response.body
            alone(f) == [NoEnv EXCEPT ![f] = e[f]]
        IN  /\ ~response.raised
            /\ response.status = 200
            /\ {"gateway", "costs", "performance", "logs", "channels", "timestamp"}
                   \subseteq DOMAIN b
            /\ b.gateway = ApiGateway(alone("probe")).value
            /\ b.costs = ApiCosts(alone("cost_fail")).value
            /\ b.performance =
                   ApiPerformance([NoEnv EXCEPT !.perf_fail = e.perf_fail,
                                                !.latest = e.latest]).value
            /\ b.logs = ApiLogs([NoEnv EXCEPT !.log_fail = e.log_fail,
                                              !.recent = e.recent]).value
            /\ e.channel.kind = "ok" => b.channels = e.channel.health
            /\ e.channel.kind # "ok" =>
                   b.channels = [error |-> e.channel.kind, timestamp |-> isoformat(now)]

\* Everything fails at once: the gateway refuses, every store fails at a
\* query and the channel probe throws.
C2_Witness ==
    /\ response.path \in AllPaths
    /\ response.status = 200
    /\ response.env.probe.kind = "refused"
    /\ response.env.cost_fail = QWeekly
    /\ response.env.perf_fail = QCpuAvg
    /\ response.env.log_fail = QByType
    /\ response.env.channel.kind = "throws"
    /\ response.body.costs.daily > 0

\* The week of now started on or after the 1st of the month of now.
WeekStartsInMonth == weekday(now) <= day_of_month(now) - 1

\* C3, as claimed: the windows are nested, daily in weekly in monthly, so the
\* figures returned over a readable store satisfy daily <= weekly <= monthly
\* (stated for the calls none of whose queries fails).
C3_WindowsNested ==
    CostsRead =>
        /\ response.body.daily <= response.body.weekly
        /\ response.body.weekly <= response.body.monthly

\* C3, amended: the daily window lies in the weekly and in the monthly window;
\* the weekly window lies in the monthly one when the week of now started on
\* or after the 1st of the month, and the monthly window lies in the weekly
\* one when it started before; the figures whose queries ran are ordered as
\* their windows are.
C3_WindowsNestedAmended ==
    (Served("/api/monitoring/costs") /\ exists["cost"]) =>
        LET b == response.body
            f == response.env.cost_fail
            ran(k) == f = 0 \/ k < f
            D == DOMAIN Since(model_calls, isoformat(daily_start(now)))
            W == DOMAIN Since(model_calls, isoformat(weekly_start(now)))
            M == DOMAIN Since(model_calls, isoformat(monthly_start(now)))
        IN  /\ D \subseteq W
            /\ D \subseteq M
            /\ IF WeekStartsInMonth THEN W \subseteq M ELSE M \subseteq W
            /\ ran(QWeekly) => b.daily <= b.weekly
            /\ ran(QMonthly) => b.daily <= b.monthly
            /\ ran(QMonthly) => IF WeekStartsInMonth THEN b.weekly <= b.monthly
                                ELSE b.monthly <= b.weekly

\* The week of now started before the 1st, and the week cost more than the month.
C3_Witness ==
    /\ CostsRead
    /\ ~WeekStartsInMonth
    /\ response.body.monthly > 0
    /\ response.body.weekly > response.body.monthly

\* daily_avg > max(daily, 1), in cents and times the days
TrendByMax(monthly, daily, d) ==
    IF monthly > Max(daily, 100) * d THEN "increasing" ELSE "stable"

\* daily_avg > (daily if daily is not 0, else 1), in cents and times the days
TrendByOr(monthly, daily, d) ==
    IF monthly > (IF daily # 0 THEN daily ELSE 100) * d THEN "increasing" ELSE "stable"

Projection(monthly, d, trend) ==
    [predicted_monthly_cost |-> RoundDiv(monthly * 30, d),
     confidence |-> IF d > 10 THEN "medium" ELSE "low",
     daily_average |-> RoundDiv(monthly, d),
     trend |-> trend, based_on_days |-> d]

\* C4, as claimed: when the monthly cost is > 0 the projection is
\* daily_average = monthly / max(d, 1), predicted = daily_average * 30,
\* confidence medium if d > 10 else low, trend increasing if daily_average >
\* max(daily, 1) else stable, based_on_days = d; when it is 0 the projection
\* is the default (stated for the calls none of whose queries fails).
C4_Projection ==
    CostsRead =>
        LET b == response.body
            d == day_of_month(now)
        IN  b.prediction =
                IF b.monthly > 0
                THEN Projection(b.monthly, Max(d, 1), TrendByMax(b.monthly, b.daily, Max(d, 1)))
                ELSE default_prediction

\* C4, amended: the projection is computed when every query of the call has
\* succeeded and the monthly cost is > 0; it is then as claimed, except that
\* trend is increasing if daily_average > (daily if daily is not 0, else 1);
\* in every other case it is the default.
C4_ProjectionAmended ==
    Served("/api/monitoring/costs") =>
        LET b == response.body
            d == day_of_month(now)
        IN  b.prediction =
                IF CostsRead /\ b.monthly > 0
                THEN Projection(b.monthly, Max(d, 1), TrendByOr(b.monthly, b.daily, Max(d, 1)))
                ELSE default_prediction

\* Today cost less than a dollar, and less than the month's daily average.
C4_Witness ==
    /\ CostsRead
    /\ response.body.daily > 0
    /\ response.body.daily < 100
    /\ response.body.prediction.trend = "increasing"
    /\ response.body.prediction.daily_average <= 100

\* C5: when a store query of get_cost_data fails, whichever it is, the cost
\* snapshot returned is the zero-defaulted one; nothing computed before the
\* failing query remains in it.
C5_FailureGivesDefault ==
    (Served("/api/monitoring/costs") /\ response.env.cost_fail # 0) =>
        response.body = default_cost_data(now)

\* C6: with no cost events, the store present but empty or absent altogether,
\* get_cost_data returns daily = weekly = monthly = 0, an empty by_model, a
\* trend_7d of exactly 7 entries of cost 0 and a projection of confidence low.
C6_NoEventsSnapshot ==
    (/\ Served("/api/monitoring/costs")
     /\ model_calls = EmptyBag
     /\ response.env.cost_fail = 0) =>
        LET b == response.body
        IN  /\ b.daily = 0 /\ b.weekly = 0 /\ b.monthly = 0
            /\ DOMAIN b.by_model = {}
            /\ Len(b.trend_7d) = 7
            /\ \A i \in 1..Len(b.trend_7d) : b.trend_7d[i].cost = 0
            /\ b.prediction.confidence = "low"

\* C7: by_severity always has the keys critical, error and warning, and every
\* event of another severity is counted under "other": not dropped, not
\* under a key of its own.
C7_SeverityBuckets ==
    (Served("/api/monitoring/logs") /\ exists["log"] /\ response.env.log_fail = 0) =>
        LET s == response.body.by_severity
            unknown == Where(anomaly_events, LAMBDA r : r.severity \notin Keys3)
        IN  /\ Keys3 \subseteq DOMAIN s
            /\ DOMAIN s \subseteq Keys3 \cup {"other"}
            /\ Count(unknown) > 0 => "other" \in DOMAIN s /\ s["other"] = Count(unknown)

RECURSIVE SumValues(_, _)
SumValues(f, S) ==
    IF S = {} THEN 0
    ELSE LET k == CHOOSE x \in S : TRUE IN f[k] + SumValues(f, S \ {k})

\* C8: by_model has one key per (provider, model) pair of the trailing 7
\* days, no pair's cost is lost or overwritten, and the values sum to the sum
\* of the costs of the events of the trailing 7 days, up to the rounding of
\* each value.  The trailing 7 days are taken as the rows the query selects.
C8_ByModelSum ==
    CostsRead =>
        LET m == response.body.by_model
            W == Since(model_calls, sqlite_datetime(now, 7 * 24))
            pairs == {<<r.provider, r.model>> : r \in DOMAIN W}
            diff == 10 * SumValues(m, DOMAIN m) - SumOver(W, DOMAIN W, "cost_usd")
        IN  /\ DOMAIN m = {model_key(p[1], p[2]) : p \in pairs}
            /\ Cardinality(DOMAIN m) = Cardinality(pairs)
            /\ diff <= 5 * Cardinality(pairs)
            /\ 0 - diff <= 5 * Cardinality(pairs)

\* C9: over a readable store trend_7d has 7 entries; entry i is labelled with
\* the month-day of now - i days and holds the costs of exactly the events of
\* that calendar day, from its 00:00:00.000000 to the next; entry 0 is the
\* daily figure when no event is later than today.
C9_TrendByCalendarDay ==
    CostsRead =>
        LET tr == response.body.trend_7d
            ofDay(d) == Where(model_calls, LAMBDA r : r.timestamp.day = d)
        IN  /\ Len(tr) = 7
            /\ \A i \in 0..6 :
                  /\ tr[i + 1].date = strftime_md(minus_days(now, i))
                  /\ tr[i + 1].cost =
                         rounded_or_zero(SqlSum(ofDay(now.day - i), "cost_usd"))
            /\ (\A r \in DOMAIN model_calls : r.timestamp.day <= now.day) =>
                  tr[1].cost = response.body.daily

\* C10: total_requests is the number of GatewayMetric rows of the trailing
\* hour and response_1h_avg their average response time, also when every row
\* of the window has response time 0.  The trailing hour is taken as the rows
\* the query selects.
C10_GatewayWindow ==
    (/\ Served("/api/monitoring/performance")
     /\ exists["metrics"]
     /\ response.env.perf_fail = 0) =>
        LET g == response.body.gateway
            W == Since(gateway_metrics, sqlite_datetime(now, 1))
        IN  /\ g.total_requests = Count(W)
            /\ g.response_1h_avg =
                   IF Count(W) = 0 THEN 0
                   ELSE RoundDiv(100 * SumOver(W, DOMAIN W, "response_time_ms"), Count(W))

\* C11: no value returned by get_performance_data has a null leaf, whatever
\* the rows hold: a NULL column of the latest metrics row is reported as 0.
C11_NoNullLeaf ==
    Served("/api/monitoring/performance") =>
        LET b == response.body
        IN  /\ ~b.system.memory_percent.null
            /\ \A k \in DOMAIN b.system \ {"memory_percent"} : b.system[k] \in Nat
            /\ \A k \in DOMAIN b.gateway : b.gateway[k] \in Nat

\* C13: serving a request changes nothing that outlives it: across the
\* serving of any GET request the stores and sys.path stay as they were.
C13_NoLastingState ==
    [][(Idle /\ response'.path # "") =>
          UNCHANGED <<exists, model_calls, metrics, gateway_metrics, anomaly_events,
                      sys_path>>]_vars

\* C14: the value get_log_analysis returns is the aggregation of the store
\* as it was at one instant, also while the collector appends rows: the
\* total is the sum of the by_severity counts and of the by_type counts.
C14_ConsistentRead ==
    (Served("/api/monitoring/logs") /\ exists["log"]) =>
        LET b == response.body
        IN  /\ b.total_anomalies = SumValues(b.by_severity, DOMAIN b.by_severity)
            /\ b.total_anomalies = SumValues(b.by_type, DOMAIN b.by_type)

\* C16: check_costs returns the daily, weekly and monthly figures that
\* get_cost_data returns for the same clock and the same rows, and its daily
\* figure is at most its weekly figure.
C16_MonitorAgrees ==
    CostsRead =>
        LET c == check_costs(now, exists["cost"], model_calls, 0).value
            b == response.body
        IN  /\ c.daily = b.daily
            /\ c.weekly = b.weekly
            /\ c.monthly = b.monthly
            /\ c.daily <= c.weekly

\* C12: requests are handled independently: a request that has arrived at
\* the server is answered, whatever the other clients do, also when another
\* connection is being handled whose client has stalled.
C12_ServedIndependently ==
    \A c \in Clients : (net.conns[c] = "sent") ~> (net.conns[c] = "done")

\* No start() or stop() call is under way.
Quiescent == call.state = "returned"
\* The server of self.server holds the port and its thread is serving it.
BeingServed ==
    /\ kuro.server # 0
    /\ httpd.id = kuro.server
    /\ kuro.thread = kuro.server
    /\ httpd.listening
    /\ httpd.loop \in {"starting", "serving", "handling"}

\* C17: after every start() and stop() call that has returned, running is
\* true exactly when the server of this object is being served by its
\* thread; stop() has not failed and has left running false and the socket
\* closed; a start() that returned normally serves, one that failed to bind
\* leaves running false; and no step creates a server or a thread while
\* running is true.
C17_RunningIffServed ==
    [][/\ Quiescent' =>
            /\ kuro'.running <=> BeingServed'
            /\ call'.op = "stop" =>
                   ~call'.raised /\ ~kuro'.running /\ ~httpd'.listening
            /\ (call'.op = "start" /\ ~call'.raised) => kuro'.running
            /\ (call'.op = "start" /\ call'.raised) => ~kuro'.running
       /\ kuro.running =>
            /\ httpd'.id = httpd.id
            /\ kuro'.server = kuro.server
            /\ kuro'.thread = kuro.thread]_vars

\* The server serves again: a second server, started after a stop(), has
\* answered a request.
C17_Witness ==
    /\ Quiescent
    /\ call.op = "start"
    /\ kuro.running
    /\ kuro.server = MaxStarts
    /\ \E c \in Clients : net.conns[c] = "done"
    /\ \E c \in Clients : net.conns[c] = "reset"

\* A dict without key k
Without(f, k) == [x \in DOMAIN f \ {k} |-> f[x]]
\* A snapshot without its timestamp and the timestamps of its sections
StripTimestamps(b) ==
    [k \in DOMAIN b \ {"timestamp"} |->
        IF k = "resources" THEN b[k] ELSE Without(b[k], "timestamp")]

====
